---- MODULE Spec2Model ----
(***************************************************************************)
(* A model of arduino-red-clock.ino: the Display class that multiplexes a  *)
(* 4-digit 7-segment display over 12 output pins, and the sketch's setup() *)
(* and loop() that read a DS3231 real time clock and draw hours:minutes.   *)
(*                                                                         *)
(* Granularity: one step per pinMode/digitalWrite call, one step per       *)
(* millis()/getDateTime()/delay() call.  Time is the real number of        *)
(* milliseconds since power-on; millis() is that number modulo the width   *)
(* of unsigned long (scaled down, see MillisBits).  Time passes only in    *)
(* delay() and getDateTime(); every other statement takes microseconds.    *)
(***************************************************************************)
EXTENDS Integers, Sequences, FiniteSets

\* ------------------------------------------------------------------ bounds

\* Power is cut MaxTime ms after power-on (program specification Spec).
MaxTime == 2060
\* Power is cut SweepTime ms after power-on in SpecSweep and SpecDriver.
SweepTime == 4
\* Power is cut LiveTime ms after power-on in SpecLive.
LiveTime == 12
\* Width in bits of the millisecond counter (unsigned long: 32 on the target;
\* scaled down so that the counter's modulus is within TLC's integers).
MillisBits == 10
\* Total number of milliseconds by which delay() and getDateTime() calls may
\* take longer than their nominal duration during one run.
MaxOverrun == 1
\* Number of times the DS3231 moves on to the next minute during one run.
MaxRtcTicks == 1

\* ------------------------------------------------------------ configuration

DISPLAY_PIN_A == 12
DISPLAY_PIN_B == 8
DISPLAY_PIN_C == 5
DISPLAY_PIN_D == 3
DISPLAY_PIN_E == 2
DISPLAY_PIN_F == 11
DISPLAY_PIN_G == 6
DISPLAY_PIN_DP == 4
DISPLAY_PIN_D1 == 13
DISPLAY_PIN_D2 == 10
DISPLAY_PIN_D3 == 9
DISPLAY_PIN_D4 == 7

DIGIT_DISPLAY_DELAY == 1
READ_TIME_PERIOD == 1000
DOT_BLINK_PERIOD == 1000

\* enum Pins { A, B, C, D, E, F, G, DP, D1, D2, D3, D4, COUNT }
Pins_A == 0
Pins_B == 1
Pins_C == 2
Pins_D == 3
Pins_E == 4
Pins_F == 5
Pins_G == 6
Pins_DP == 7
Pins_D1 == 8
Pins_D2 == 9
Pins_D3 == 10
Pins_D4 == 11
Pins_COUNT == 12

\* Segment configurations, bit order A, B, C, D, E, F, G, 0.
D_0 == \b11111100
D_1 == \b01100000
D_2 == \b11011010
D_3 == \b11110010
D_4 == \b01100110
D_5 == \b10110110
D_6 == \b10111110
D_7 == \b11100000
D_8 == \b11111110
D_9 == \b11110110

m_digits == [d \in 0..9 |->
               CASE d = 0 -> D_0 [] d = 1 -> D_1 [] d = 2 -> D_2 [] d = 3 -> D_3
                 [] d = 4 -> D_4 [] d = 5 -> D_5 [] d = 6 -> D_6 [] d = 7 -> D_7
                 [] d = 8 -> D_8 [] d = 9 -> D_9]

\* The array filled by the constructor from the global object's arguments.
m_pins == [k \in 0..(Pins_COUNT - 1) |->
             CASE k = Pins_A -> DISPLAY_PIN_A   [] k = Pins_B -> DISPLAY_PIN_B
               [] k = Pins_C -> DISPLAY_PIN_C   [] k = Pins_D -> DISPLAY_PIN_D
               [] k = Pins_E -> DISPLAY_PIN_E   [] k = Pins_F -> DISPLAY_PIN_F
               [] k = Pins_G -> DISPLAY_PIN_G   [] k = Pins_DP -> DISPLAY_PIN_DP
               [] k = Pins_D1 -> DISPLAY_PIN_D1 [] k = Pins_D2 -> DISPLAY_PIN_D2
               [] k = Pins_D3 -> DISPLAY_PIN_D3 [] k = Pins_D4 -> DISPLAY_PIN_D4]

\* The board's digital pins the sketch touches.
BoardPins == {m_pins[k] : k \in 0..(Pins_COUNT - 1)}

\* ------------------------------------------------------------- arithmetic

\* x & y on bytes.
RECURSIVE BitAnd(_, _)
BitAnd(x, y) ==
  IF x = 0 \/ y = 0 THEN 0
  ELSE (IF x % 2 = 1 /\ y % 2 = 1 THEN 1 ELSE 0) + 2 * BitAnd(x \div 2, y \div 2)

\* The number of values of the millisecond counter.
MillisModulus == 2 ^ MillisBits

\* unsigned long arithmetic: the value modulo the counter's width.
ULong(x) == x % MillisModulus

\* ------------------------------------------------------------------ state

VARIABLES
  pc,                 \* the statement about to be executed
  ret,                \* where drawAt returns to
  pinModeOf,          \* board pin -> "INPUT" | "OUTPUT"
  pinLevel,           \* board pin -> "LOW" | "HIGH" (the output latch)
  i,                  \* the loop counter of the constructor and of setDigit,
                      \* the statement index inside clean and setPosition
  mask,               \* setDigit's mask
  pos, digit, displayDot,   \* drawAt's arguments
  currentDateTime,    \* the cached reading [hour, minute]
  lastReadTimestamp,  \* millis() when the reading was taken
  blinkingDotState,   \* loop's local
  time,               \* real milliseconds since power-on
  rtc,                \* the DS3231's time of day [hour, minute]
  overrun,            \* milliseconds of overrun used up
  rtcTicks,           \* minute ticks of the DS3231 so far
  powerOff,           \* the time at which power is cut
  buildTime,          \* __TIME__, the time of day the sketch was compiled at
  lastWrite,          \* history: the latest digitalWrite [pin, old, new]
  calls,              \* history: the drawAt calls of the current loop iteration
  readLog,            \* history: the two latest getDateTime invocations [at, value]
  stampAt,            \* history: the real time lastReadTimestamp was taken at
  iter                \* history: the current loop iteration [start, elapsed, read]:
                      \* when it started, the real time since the last stamp
                      \* then, whether it has read the clock

vars == <<pc, ret, pinModeOf, pinLevel, i, mask, pos, digit, displayDot,
          currentDateTime, lastReadTimestamp, blinkingDotState, time, rtc,
          overrun, rtcTicks, powerOff, buildTime, lastWrite, calls, readLog,
          stampAt, iter>>

displayVars == <<pinModeOf, pinLevel, lastWrite>>
drawVars == <<i, mask, pos, digit, displayDot, ret>>
sketchVars == <<currentDateTime, lastReadTimestamp, blinkingDotState>>
worldVars == <<time, rtc, overrun, rtcTicks>>
fixedVars == <<powerOff, buildTime>>
historyVars == <<calls, readLog, stampAt, iter>>

\* millis(): the counter wraps at the width of unsigned long.
millis == ULong(time)

\* ------------------------------------------------------- Arduino primitives

\* pinMode(p, OUTPUT)
PinModeOutput(p) == pinModeOf' = [pinModeOf EXCEPT ![p] = "OUTPUT"]

\* digitalWrite(p, v)
DigitalWrite(p, v) ==
  /\ pinLevel' = [pinLevel EXCEPT ![p] = v]
  /\ lastWrite' = [pin |-> p, old |-> pinLevel[p], new |-> v]

\* The time a blocking call of nominal duration d may take: d, or longer while
\* the run's overrun budget lasts.
Elapse(d) ==
  \E extra \in 0..(MaxOverrun - overrun) :
    /\ time' = time + d + extra
    /\ overrun' = overrun + extra

\* ------------------------------------------------------------ the DS3231

\* The times of day: RTCDateTime's hour and minute.
AllReadings == [hour : 0..23, minute : 0..59]

\* The DS3231 moving on to the next minute.
NextMinute(t) ==
  IF t.minute < 59 THEN [t EXCEPT !.minute = t.minute + 1]
  ELSE [hour |-> (t.hour + 1) % 24, minute |-> 0]

\* The DS3231 runs on its own oscillator: while the sketch waits, it may move
\* on to the next minute.
RtcTick ==
  /\ pc = "delay"
  /\ rtcTicks < MaxRtcTicks
  /\ rtc' = NextMinute(rtc)
  /\ rtcTicks' = rtcTicks + 1
  /\ UNCHANGED <<pc, displayVars, drawVars, sketchVars, time, overrun,
                 fixedVars, historyVars>>

\* ------------------------------------------------------- Display::Display

\* pinMode(m_pins[i], OUTPUT) of the constructor's loop.
CtorPinMode ==
  /\ pc = "ctor_mode"
  /\ i < Pins_COUNT
  /\ PinModeOutput(m_pins[i])
  /\ pc' = "ctor_write"
  /\ UNCHANGED <<pinLevel, lastWrite, drawVars, sketchVars, worldVars,
                 fixedVars, historyVars>>

\* The level the constructor drives every pin to.
CtorLevel(k) == "LOW"

\* digitalWrite(m_pins[i], LOW) of the constructor's loop, and i++.
CtorWrite ==
  /\ pc = "ctor_write"
  /\ DigitalWrite(m_pins[i], CtorLevel(i))
  /\ i' = i + 1
  /\ pc' = IF i + 1 < Pins_COUNT THEN "ctor_mode" ELSE "ctor_done"
  /\ UNCHANGED <<pinModeOf, mask, pos, digit, displayDot, ret, sketchVars,
                 worldVars, fixedVars, historyVars>>

\* --------------------------------------------------------- Display::drawAt

\* The call d.drawAt(p, dg, dot) returning to r: control enters clean().
DrawAtCall(p, dg, dot, r) ==
  /\ pos' = p
  /\ digit' = dg
  /\ displayDot' = dot
  /\ ret' = r
  /\ i' = 0
  /\ pc' = "clean"

\* A clean() that forgets the last cathode.
CleanLevel_SkipD4(k) == IF k = 3 THEN "LOW" ELSE "HIGH"

\* The level clean() drives the cathode D(k+1) to.
CleanLevel(k) == "HIGH"

\* clean(): D1, D2, D3, D4 to HIGH, one digitalWrite per step.
Clean ==
  /\ pc = "clean"
  /\ DigitalWrite(m_pins[Pins_D1 + i], CleanLevel(i))
  /\ IF i < 3
       THEN /\ i' = i + 1
            /\ UNCHANGED <<pc, mask>>
       ELSE /\ i' = 0
            /\ mask' = \b10000000
            /\ pc' = "setDigit"
  /\ UNCHANGED <<pinModeOf, pos, digit, displayDot, ret, sketchVars, worldVars,
                 fixedVars, historyVars>>

\* A setDigit whose mask starts one bit too low.
SegmentLevel_ShiftedMask(dg, m) ==
  IF BitAnd(m_digits[dg], m \div 2) # 0 THEN "HIGH" ELSE "LOW"

\* The level setDigit drives segment k to when drawing dg with mask m.
SegmentLevel(dg, m) == IF BitAnd(m_digits[dg], m) # 0 THEN "HIGH" ELSE "LOW"

\* setDigit(digit): one iteration of its loop per step.
SetDigit ==
  /\ pc = "setDigit"
  /\ i < 7
  /\ DigitalWrite(m_pins[i], SegmentLevel(digit, mask))
  /\ mask' = mask \div 2
  /\ i' = i + 1
  /\ pc' = IF i + 1 < 7 THEN "setDigit" ELSE "dot"
  /\ UNCHANGED <<pinModeOf, pos, digit, displayDot, ret, sketchVars, worldVars,
                 fixedVars, historyVars>>

\* A drawAt that never lights the dot.
DotLevel_StuckLow(dot) == "LOW"

\* The level drawAt drives the dot to.
DotLevel(dot) == IF dot THEN "HIGH" ELSE "LOW"

\* digitalWrite(m_pins[Pins::DP], displayDot ? HIGH : LOW)
WriteDot ==
  /\ pc = "dot"
  /\ DigitalWrite(m_pins[Pins_DP], DotLevel(displayDot))
  /\ i' = 0
  /\ pc' = "setPosition"
  /\ UNCHANGED <<pinModeOf, mask, pos, digit, displayDot, ret, sketchVars,
                 worldVars, fixedVars, historyVars>>

\* A setPosition that counts positions from 1.
PositionLevel_FromOne(p, k) == IF p = k + 1 THEN "LOW" ELSE "HIGH"

\* A setPosition() that clamps the position into 0..3.
PositionLevel_Clamped(p, k) ==
  IF p = k \/ (p < 0 /\ k = 0) \/ (p > 3 /\ k = 3) THEN "LOW" ELSE "HIGH"

\* The level setPosition(p) drives the cathode D(k+1) to.
PositionLevel(p, k) == IF p = k THEN "LOW" ELSE "HIGH"

\* setPosition(pos): D1, D2, D3, D4, one digitalWrite per step.
SetPosition ==
  /\ pc = "setPosition"
  /\ DigitalWrite(m_pins[Pins_D1 + i], PositionLevel(pos, i))
  /\ IF i < 3
       THEN /\ i' = i + 1
            /\ UNCHANGED pc
       ELSE /\ i' = 0
            /\ pc' = "delay"
  /\ UNCHANGED <<pinModeOf, mask, pos, digit, displayDot, ret, sketchVars,
                 worldVars, fixedVars, historyVars>>

\* A drawAt that releases the cathode of its position after the dwell.
Delay_ThenReleases ==
  /\ pc = "delay"
  /\ time < powerOff
  /\ Elapse(DIGIT_DISPLAY_DELAY)
  /\ DigitalWrite(m_pins[Pins_D1 + pos], "HIGH")
  /\ pc' = ret
  /\ UNCHANGED <<pinModeOf, drawVars, sketchVars, rtc, rtcTicks, fixedVars,
                 historyVars>>

\* delay(DIGIT_DISPLAY_DELAY), and the return of drawAt.
Delay ==
  /\ pc = "delay"
  /\ time < powerOff
  /\ Elapse(DIGIT_DISPLAY_DELAY)
  /\ pc' = ret
  /\ UNCHANGED <<displayVars, drawVars, sketchVars, rtc, rtcTicks, fixedVars,
                 historyVars>>

\* ------------------------------------------------------------------ setup

\* The global objects are constructed; control enters setup():
\* clock.begin() and clock.setDateTime(__DATE__, __TIME__).
SetupClock ==
  /\ pc = "ctor_done"
  /\ rtc' = buildTime
  /\ pc' = "setup_read"
  /\ UNCHANGED <<displayVars, drawVars, sketchVars, time, overrun, rtcTicks,
                 fixedVars, historyVars>>

\* The history keeps the two latest invocations.
Latest(log) == IF Len(log) > 2 THEN Tail(log) ELSE log

\* currentDateTime = clock.getDateTime(), in setup and in loop.  The bus
\* transfer takes well under a millisecond, or longer out of the overrun budget.
GetDateTime ==
  /\ pc \in {"setup_read", "loop_read"}
  /\ currentDateTime' = rtc
  /\ readLog' = Latest(Append(readLog, [at |-> time, value |-> rtc]))
  /\ Elapse(0)
  /\ iter' = IF pc = "loop_read" THEN [iter EXCEPT !.read = TRUE] ELSE iter
  /\ pc' = IF pc = "setup_read" THEN "setup_stamp" ELSE "loop_stamp"
  /\ UNCHANGED <<displayVars, drawVars, lastReadTimestamp, blinkingDotState,
                 rtc, rtcTicks, fixedVars, calls, stampAt>>

\* lastReadTimestamp = millis(), in setup and in loop.
Stamp ==
  /\ pc \in {"setup_stamp", "loop_stamp"}
  /\ lastReadTimestamp' = millis
  /\ stampAt' = time
  /\ pc' = IF pc = "setup_stamp" THEN "loop_check" ELSE "loop_blink"
  /\ UNCHANGED <<displayVars, drawVars, currentDateTime, blinkingDotState,
                 worldVars, fixedVars, calls, readLog, iter>>

\* ------------------------------------------------------------------- loop

\* A test of the time update that forgets the last read.
ReadDue_NoSubtract(now, last) == now >= READ_TIME_PERIOD

\* A test of the time update on signed numbers, without the wrap-around.
ReadDue_NoWrap(now, last) == now - last >= READ_TIME_PERIOD

\* A test of the time update that waits one millisecond too long.
ReadDue_Strict(now, last) == ULong(now - last) > READ_TIME_PERIOD

\* millis() - lastReadTimestamp >= READ_TIME_PERIOD
ReadDue(now, last) == ULong(now - last) >= READ_TIME_PERIOD

\* The head of loop(): the test of the time update.
LoopCheck ==
  /\ pc = "loop_check"
  /\ pc' = IF ReadDue(millis, lastReadTimestamp) THEN "loop_read" ELSE "loop_blink"
  /\ calls' = <<>>
  /\ iter' = [start |-> time, elapsed |-> time - stampAt, read |-> FALSE]
  /\ UNCHANGED <<displayVars, drawVars, sketchVars, worldVars, fixedVars,
                 readLog, stampAt>>

\* A blink phase with the comparison turned around.
BlinkPhase_Inverted(now) == now % DOT_BLINK_PERIOD < DOT_BLINK_PERIOD \div 2

\* millis() % DOT_BLINK_PERIOD >= DOT_BLINK_PERIOD / 2
BlinkPhase(now) == now % DOT_BLINK_PERIOD >= DOT_BLINK_PERIOD \div 2

\* A loop() that drives the dot itself when it computes the blink phase.
LoopBlink_DrivesDot ==
  /\ pc = "loop_blink"
  /\ blinkingDotState' = BlinkPhase(millis)
  /\ DigitalWrite(m_pins[Pins_DP], DotLevel(BlinkPhase(millis)))
  /\ pc' = "loop_draw0"
  /\ UNCHANGED <<pinModeOf, drawVars, currentDateTime, lastReadTimestamp,
                 worldVars, fixedVars, historyVars>>

\* bool blinkingDotState = ...
LoopBlink ==
  /\ pc = "loop_blink"
  /\ blinkingDotState' = BlinkPhase(millis)
  /\ pc' = "loop_draw0"
  /\ UNCHANGED <<displayVars, drawVars, currentDateTime, lastReadTimestamp,
                 worldVars, fixedVars, historyVars>>

\* A loop() that draws the hour's units before its tens.
LoopArgs_SwappedHour(k) ==
  CASE k = 0 -> [pos |-> 0, digit |-> currentDateTime.hour % 10, dot |-> FALSE]
    [] k = 1 -> [pos |-> 1, digit |-> currentDateTime.hour \div 10, dot |-> blinkingDotState]
    [] k = 2 -> [pos |-> 2, digit |-> currentDateTime.minute \div 10, dot |-> FALSE]
    [] k = 3 -> [pos |-> 3, digit |-> currentDateTime.minute % 10, dot |-> FALSE]

\* A loop() that blinks the dot of the minutes' tens too.
LoopArgs_DotAtTwo(k) ==
  CASE k = 0 -> [pos |-> 0, digit |-> currentDateTime.hour \div 10, dot |-> FALSE]
    [] k = 1 -> [pos |-> 1, digit |-> currentDateTime.hour % 10, dot |-> blinkingDotState]
    [] k = 2 -> [pos |-> 2, digit |-> currentDateTime.minute \div 10, dot |-> blinkingDotState]
    [] k = 3 -> [pos |-> 3, digit |-> currentDateTime.minute % 10, dot |-> FALSE]

\* A loop() that draws the minutes' tens at position 1 again.
LoopArgs_RepeatsOne(k) ==
  CASE k = 0 -> [pos |-> 0, digit |-> currentDateTime.hour \div 10, dot |-> FALSE]
    [] k = 1 -> [pos |-> 1, digit |-> currentDateTime.hour % 10, dot |-> blinkingDotState]
    [] k = 2 -> [pos |-> 1, digit |-> currentDateTime.minute \div 10, dot |-> FALSE]
    [] k = 3 -> [pos |-> 3, digit |-> currentDateTime.minute % 10, dot |-> FALSE]

\* A loop() that passes the whole hour as the second digit.
LoopArgs_HourUnsplit(k) ==
  CASE k = 0 -> [pos |-> 0, digit |-> currentDateTime.hour \div 10, dot |-> FALSE]
    [] k = 1 -> [pos |-> 1, digit |-> currentDateTime.hour, dot |-> blinkingDotState]
    [] k = 2 -> [pos |-> 2, digit |-> currentDateTime.minute \div 10, dot |-> FALSE]
    [] k = 3 -> [pos |-> 3, digit |-> currentDateTime.minute % 10, dot |-> FALSE]

\* The arguments of the k-th drawAt call of loop().
LoopArgs(k) ==
  CASE k = 0 -> [pos |-> 0, digit |-> currentDateTime.hour \div 10, dot |-> FALSE]
    [] k = 1 -> [pos |-> 1, digit |-> currentDateTime.hour % 10, dot |-> blinkingDotState]
    [] k = 2 -> [pos |-> 2, digit |-> currentDateTime.minute \div 10, dot |-> FALSE]
    [] k = 3 -> [pos |-> 3, digit |-> currentDateTime.minute % 10, dot |-> FALSE]

\* A loop() that fetches the time again before the third drawAt.
LoopDraw_Refreshes(k, from, to) ==
  /\ pc = from
  /\ DrawAtCall(LoopArgs(k).pos, LoopArgs(k).digit, LoopArgs(k).dot, to)
  /\ calls' = Append(calls, LoopArgs(k))
  /\ currentDateTime' = IF k = 1 THEN rtc ELSE currentDateTime
  /\ UNCHANGED <<displayVars, mask, lastReadTimestamp, blinkingDotState,
                 worldVars, fixedVars, readLog, stampAt, iter>>

\* The k-th drawAt call of loop(), returning to the statement after it.
LoopDraw(k, from, to) ==
  /\ pc = from
  /\ DrawAtCall(LoopArgs(k).pos, LoopArgs(k).digit, LoopArgs(k).dot, to)
  /\ calls' = Append(calls, LoopArgs(k))
  /\ UNCHANGED <<displayVars, mask, sketchVars, worldVars, fixedVars, readLog,
                 stampAt, iter>>

LoopDraw0 == LoopDraw(0, "loop_draw0", "loop_draw1")
LoopDraw1 == LoopDraw(1, "loop_draw1", "loop_draw2")
LoopDraw2 == LoopDraw(2, "loop_draw2", "loop_draw3")
LoopDraw3 == LoopDraw(3, "loop_draw3", "loop_check")

\* ----------------------------------------------------------- specifications

\* Power-on: every pin is an input with its output latch low, the globals are
\* zero-initialised, the constructor of the global Display is about to run.
InitWith(builds, off) ==
  /\ pc = "ctor_mode"
  /\ ret = "none"
  /\ pinModeOf = [p \in BoardPins |-> "INPUT"]
  /\ pinLevel = [p \in BoardPins |-> "LOW"]
  /\ i = 0
  /\ mask = 0
  /\ pos = 0
  /\ digit = 0
  /\ displayDot = FALSE
  /\ currentDateTime = [hour |-> 0, minute |-> 0]
  /\ lastReadTimestamp = 0
  /\ blinkingDotState = FALSE
  /\ time = 0
  /\ rtc = [hour |-> 0, minute |-> 0]
  /\ overrun = 0
  /\ rtcTicks = 0
  /\ powerOff = off
  /\ buildTime \in builds
  /\ lastWrite = [pin |-> 0, old |-> "LOW", new |-> "LOW"]
  /\ calls = <<>>
  /\ readLog = <<>>
  /\ stampAt = 0
  /\ iter = [start |-> 0, elapsed |-> 0, read |-> FALSE]

\* The build times of the program specification.
BuildTimes == {[hour |-> 7, minute |-> 5], [hour |-> 23, minute |-> 59]}

Init == InitWith(BuildTimes, MaxTime)

Display == CtorPinMode \/ CtorWrite \/ Clean \/ SetDigit \/ WriteDot
             \/ SetPosition \/ Delay

Next ==
  \/ Display
  \/ SetupClock \/ GetDateTime \/ Stamp
  \/ LoopCheck \/ LoopBlink
  \/ LoopDraw0 \/ LoopDraw1 \/ LoopDraw2 \/ LoopDraw3
  \/ RtcTick

\* The sketch: the global constructor, setup(), then loop() for ever.
Spec == Init /\ [][Next]_vars

\* The sketch compiled at any time of day, run for one sweep of the display.
InitSweep == InitWith(AllReadings, SweepTime)

SpecSweep == InitSweep /\ [][Next]_vars

\* The sketch for a few sweeps, the processor never pausing of itself: every
\* call returns, and a statement that can be executed is executed.
InitLive == InitWith(BuildTimes, LiveTime)

SpecLive == InitLive /\ [][Next]_vars /\ WF_vars(Next)

\* The Display class on its own: constructed, then drawAt called with any
\* digit and any position, the two nearest positions outside 0..3 included,
\* from whatever state the previous call left.
DrawPositions == -1..4
DrawDigits == 0..9

InitDriver == InitWith({[hour |-> 0, minute |-> 0]}, SweepTime)

DriverCall ==
  /\ pc \in {"ctor_done", "driver"}
  /\ \E p \in DrawPositions, dg \in DrawDigits, dot \in BOOLEAN :
       DrawAtCall(p, dg, dot, "driver")
  /\ UNCHANGED <<displayVars, mask, sketchVars, worldVars, fixedVars,
                 historyVars>>

NextDriver == Display \/ DriverCall

SpecDriver == InitDriver /\ [][NextDriver]_vars

\* ------------------------------------------------------------------ claims

\* The level of the line with role k (an index of enum Pins).
Level(k) == pinLevel[m_pins[k]]

Segments == Pins_A..Pins_G
Selects == Pins_D1..Pins_D4

\* The digit-select lines that are driven to their active level.
ActiveSelects ==
  {k \in Selects : pinModeOf[m_pins[k]] = "OUTPUT" /\ Level(k) = "LOW"}

\* The segment lines that are energized.
LitSegments == {k \in Segments : Level(k) = "HIGH"}

\* The constructor has finished.
Initialized == pc \notin {"ctor_mode", "ctor_write"}

\* drawAt has reached its final pin state: the dwell begins, or it has returned.
Rendered == pc = "delay" \/ pc = ret

\* C1: from the end of the constructor on, in every state between two pin
\* writes, at most one digit-select line is active (LOW).
C1_AtMostOneSelectActive == Initialized => Cardinality(ActiveSelects) <= 1

\* C2: when the constructor finishes, all 12 pins are outputs, the segment
\* and dot lines are LOW and the four digit-select lines are HIGH.
C2_ConstructedAllInactive ==
  pc = "ctor_done" =>
    /\ \A k \in 0..(Pins_COUNT - 1) : pinModeOf[m_pins[k]] = "OUTPUT"
    /\ \A k \in Segments \cup {Pins_DP} : Level(k) = "LOW"
    /\ \A k \in Selects : Level(k) = "HIGH"

\* C3: when the dwell of drawAt begins with a position in 0..3, exactly the
\* digit-select line of that position is active and the other three are HIGH.
C3_ExactlyThePositionSelected ==
  (pc = "delay" /\ pos \in 0..3) =>
    /\ ActiveSelects = {Pins_D1 + pos}
    /\ \A k \in Selects \ {Pins_D1 + pos} : Level(k) = "HIGH"

\* C3's case: a dwell at the third position, after an earlier call.
C3_Witness ==
  /\ pc = "delay"
  /\ pos = 2
  /\ time > 0
  /\ ActiveSelects = {Pins_D3}

\* The standard 7-segment glyphs, as sets of segments.
Glyph(d) ==
  CASE d = 0 -> {Pins_A, Pins_B, Pins_C, Pins_D, Pins_E, Pins_F}
    [] d = 1 -> {Pins_B, Pins_C}
    [] d = 2 -> {Pins_A, Pins_B, Pins_D, Pins_E, Pins_G}
    [] d = 3 -> {Pins_A, Pins_B, Pins_C, Pins_D, Pins_G}
    [] d = 4 -> {Pins_B, Pins_C, Pins_F, Pins_G}
    [] d = 5 -> {Pins_A, Pins_C, Pins_D, Pins_F, Pins_G}
    [] d = 6 -> {Pins_A, Pins_C, Pins_D, Pins_E, Pins_F, Pins_G}
    [] d = 7 -> {Pins_A, Pins_B, Pins_C}
    [] d = 8 -> {Pins_A, Pins_B, Pins_C, Pins_D, Pins_E, Pins_F, Pins_G}
    [] d = 9 -> {Pins_A, Pins_B, Pins_C, Pins_D, Pins_F, Pins_G}

\* C4: after drawAt with a digit in 0..9, the energized segment lines are
\* exactly the standard glyph of that digit, whatever was drawn before.
C4_SegmentsAreTheGlyph ==
  (Rendered /\ digit \in 0..9) => LitSegments = Glyph(digit)

\* C4's case: a 1 drawn over an earlier glyph, of which nothing is left.
C4_Witness ==
  /\ pc = "delay"
  /\ digit = 1
  /\ time > 0
  /\ LitSegments = {Pins_B, Pins_C}

\* C5: after the constructor, no segment line and no dot line changes level
\* while a digit-select line is active.
C5_NoSegmentChangeWhileSelected ==
  [][(Initialized /\ \E k \in Segments \cup {Pins_DP} :
                       pinLevel'[m_pins[k]] # pinLevel[m_pins[k]])
       => ActiveSelects = {}]_vars

\* C5's case: a segment line has just changed level, all selects released.
C5_Witness ==
  /\ pc = "setDigit"
  /\ lastWrite.pin \in {m_pins[k] : k \in Segments}
  /\ lastWrite.old # lastWrite.new
  /\ ActiveSelects = {}

\* C6: after drawAt the dot line is HIGH exactly if displayDot was true.
C6_DotFollowsArgument ==
  Rendered => (Level(Pins_DP) = "HIGH" <=> displayDot)

\* C6's case: the dot lit at the last position, and the call has returned.
C6_Witness ==
  /\ pc = "driver"
  /\ displayDot
  /\ pos = 3
  /\ Level(Pins_DP) = "HIGH"

\* The digits of the calls logged so far.
CallDigits == [k \in 1..Len(calls) |-> calls[k].digit]

\* C7: one iteration of loop() calls drawAt exactly four times, for the
\* positions 0, 1, 2, 3 in this order, with the decimal digits of the cached
\* hour and minute (7:05 draws 0,7,0,5; 23:59 draws 2,3,5,9).
C7_SweepDrawsTheTime ==
  /\ Len(calls) <= 4
  /\ \A k \in 1..Len(calls) : calls[k].pos = k - 1 /\ calls[k].digit \in 0..9
  /\ Len(calls) >= 2 => 10 * calls[1].digit + calls[2].digit = currentDateTime.hour
  /\ Len(calls) = 4 => 10 * calls[3].digit + calls[4].digit = currentDateTime.minute
  /\ (pc = "loop_check" /\ ret = "loop_check") =>
       /\ Len(calls) = 4
       /\ currentDateTime = [hour |-> 7, minute |-> 5] => CallDigits = <<0, 7, 0, 5>>
       /\ currentDateTime = [hour |-> 23, minute |-> 59] => CallDigits = <<2, 3, 5, 9>>

\* C7's case: a complete sweep at 23:59.
C7_Witness ==
  /\ pc = "loop_check"
  /\ ret = "loop_check"
  /\ currentDateTime = [hour |-> 23, minute |-> 59]
  /\ CallDigits = <<2, 3, 5, 9>>

\* C8: two consecutive getDateTime invocations (the one of setup included)
\* are at least READ_TIME_PERIOD ms apart, and between invocations the cached
\* time stays what the latest invocation returned, whatever the DS3231 does.
C8_ReadsArePeriodApart ==
  /\ \A k \in 2..Len(readLog) :
       readLog[k].at - readLog[k - 1].at >= READ_TIME_PERIOD
  /\ Len(readLog) >= 1 => currentDateTime = readLog[Len(readLog)].value

\* C8's case: a second read has happened and the DS3231 has since moved on.
C8_Witness ==
  /\ Len(readLog) >= 2
  /\ rtc # currentDateTime

\* C9: the blink phase is false in the first half and true in the second half
\* of every DOT_BLINK_PERIOD-long window of the millisecond counter.
C9_BlinkPhaseByWindow ==
  pc = "loop_draw0" =>
    \E w \in 0..(MillisModulus \div DOT_BLINK_PERIOD) :
      LET start == w * DOT_BLINK_PERIOD
          half == start + DOT_BLINK_PERIOD \div 2
      IN /\ start <= millis
         /\ millis < start + DOT_BLINK_PERIOD
         /\ blinkingDotState <=> millis >= half

\* C9's case: the second half of a window.
C9_Witness ==
  /\ pc = "loop_draw0"
  /\ blinkingDotState
  /\ millis >= DOT_BLINK_PERIOD \div 2

\* C10: loop() passes the dot only to position 1, where it is the blink phase
\* of the iteration; during the dwell of positions 0, 2 and 3 the dot is off.
C10_DotOnlyAtPositionOne ==
  /\ \A k \in 1..Len(calls) :
       calls[k].dot = (calls[k].pos = 1 /\ blinkingDotState)
  /\ (pc = "delay" /\ pos \in {0, 2, 3}) => Level(Pins_DP) = "LOW"

\* C10's case: the dwell of position 2 right after a lit dot at position 1.
C10_Witness ==
  /\ pc = "delay"
  /\ pos = 2
  /\ blinkingDotState
  /\ Len(calls) = 3
  /\ calls[2].dot
  /\ Level(Pins_DP) = "LOW"

\* The statements of loop() after the time update: the blink phase and the
\* four drawAt calls.
SweepPcs == {"loop_blink", "loop_draw0", "loop_draw1", "loop_draw2",
             "loop_draw3", "clean", "setDigit", "dot", "setPosition", "delay"}

\* The longest a loop iteration takes: four dwells and the run's overrun.
LongestIteration == 4 * DIGIT_DISPLAY_DELAY + MaxOverrun

\* The latest getDateTime invocation.
LastRead == readLog[Len(readLog)]

\* C11: an iteration that starts READ_TIME_PERIOD ms or more after the last
\* read was stamped reads the clock at its start and stores the result before
\* it draws any digit; no stretch without a read, and no interval between two
\* reads, is longer than READ_TIME_PERIOD plus one loop iteration.
C11_RefreshWhenDue ==
  /\ (pc \in SweepPcs /\ iter.elapsed >= READ_TIME_PERIOD) =>
       /\ iter.read
       /\ LastRead.at = iter.start
       /\ currentDateTime = LastRead.value
  /\ pc \in {"loop_read", "loop_stamp"} => calls = <<>>
  /\ Len(readLog) >= 1 => time - LastRead.at <= READ_TIME_PERIOD + LongestIteration
  /\ \A k \in 2..Len(readLog) :
       readLog[k].at - readLog[k - 1].at <= READ_TIME_PERIOD + LongestIteration

\* C11's case: an iteration found the read due, has read and goes on to draw.
C11_Witness ==
  /\ pc = "loop_blink"
  /\ iter.elapsed >= READ_TIME_PERIOD
  /\ iter.read
  /\ Len(readLog) = 2
  /\ LastRead.at - readLog[1].at >= READ_TIME_PERIOD

\* Power has been cut: the dwell the sketch is in never ends.
PoweredOff == pc = "delay" /\ time >= powerOff

\* C12: loop() has no terminating state, and every iteration that power
\* lasts for activates each of the four positions, in the order 0, 1, 2, 3
\* and then 0 again; no position is skipped.
C12_EveryPositionInTurn ==
  /\ [](PoweredOff \/ ENABLED Next)
  /\ [][pos' # pos => pos' = (pos + 1) % 4]_vars
  /\ [][(ActiveSelects = {} /\ ActiveSelects' # {})
          => ActiveSelects' = {Pins_D1 + pos}]_vars
  /\ \A k \in 0..3 :
       (pc = "loop_check" /\ time + LongestIteration <= powerOff)
         ~> (pc = "delay" /\ ActiveSelects = {Pins_D1 + k})

\* C12's case: the last position lit in a sweep after the first one.
C12_Witness ==
  /\ pc = "delay"
  /\ pos = 3
  /\ ActiveSelects = {Pins_D4}
  /\ iter.start >= 4 * DIGIT_DISPLAY_DELAY

\* The statements of drawAt and of the functions it calls.
DrawPcs == {"clean", "setDigit", "dot", "setPosition", "delay"}

\* The time update and the blink phase of loop().
RefreshPcs == {"loop_check", "loop_read", "loop_stamp", "loop_blink"}

\* C13: after the constructor only drawAt changes the mode or level of a
\* display pin, the time update and the blink phase of loop() change none,
\* and drawAt changes neither the cached time nor lastReadTimestamp.
C13_OnlyDrawAtDrivesPins ==
  /\ [][(Initialized /\ <<pinModeOf, pinLevel>>' # <<pinModeOf, pinLevel>>)
          => pc \in DrawPcs]_vars
  /\ [][(pc \in RefreshPcs) => (UNCHANGED <<pinModeOf, pinLevel>>)]_vars
  /\ [][(pc \in DrawPcs)
          => (UNCHANGED <<currentDateTime, lastReadTimestamp>>)]_vars

\* C13's case: loop() has just read and stamped the time, and the pins are
\* as the drawAt of position 3 left them.
C13_Witness ==
  /\ pc = "loop_blink"
  /\ iter.read
  /\ lastReadTimestamp = ULong(iter.start)
  /\ pos = 3
  /\ ActiveSelects = {Pins_D4}
  /\ LitSegments = Glyph(digit)

\* C14: with a reading of hour 0..23 and minute 0..59, every drawAt call of
\* loop() has a position in 0..3 and a digit in 0..9, so setDigit indexes
\* m_digits inside its 10 entries.
C14_LoopMeetsPrecondition ==
  currentDateTime \in AllReadings =>
    /\ (pc \in DrawPcs /\ ret # "none") => (pos \in 0..3 /\ digit \in 0..9)
    /\ pc = "setDigit" => digit \in DOMAIN m_digits

\* C14's case: setDigit looks up the units of the hour 19.
C14_Witness ==
  /\ pc = "setDigit"
  /\ currentDateTime.hour = 19
  /\ pos = 1
  /\ digit = 9

\* The statements of loop() outside drawAt.
LoopPcs == RefreshPcs \cup {"loop_draw0", "loop_draw1", "loop_draw2", "loop_draw3"}

\* A drawAt call has written its last pin and the next one has not yet
\* written its first: the dwell, the statements of loop() after a return, and
\* the entry of the next call.
Held ==
  \/ pc = "delay"
  \/ pc \in LoopPcs /\ ret # "none"
  \/ pc = "clean" /\ i = 0 /\ Len(calls) >= 2

\* The arguments of the call whose pin state is held.
HeldCall ==
  IF pc = "clean" /\ i = 0 /\ Len(calls) >= 2
    THEN calls[Len(calls) - 1]
    ELSE [pos |-> pos, digit |-> digit, dot |-> displayDot]

\* C15: from the dwell of a drawAt call until the first write of the next
\* call, the time update and blink phase of loop() included, the pins show
\* the call's glyph and dot with exactly its position selected.
C15_StateHeldUntilNextCall ==
  Held =>
    /\ LitSegments = Glyph(HeldCall.digit)
    /\ Level(Pins_DP) = "HIGH" <=> HeldCall.dot
    /\ ActiveSelects = {Pins_D1 + HeldCall.pos}

\* C15's case: position 3 is still selected and lit while loop() takes the
\* timestamp of a new reading.
C15_Witness ==
  /\ pc = "loop_stamp"
  /\ pos = 3
  /\ ActiveSelects = {Pins_D4}
  /\ LitSegments = Glyph(digit)
  /\ LitSegments # {}

\* The digits drawAt would be handed for the reading t, in drawing order.
DigitsOf(t) == <<t.hour \div 10, t.hour % 10, t.minute \div 10, t.minute % 10>>

\* C16: currentDateTime is assigned only by the getDateTime() at the head of
\* loop() (and in setup()), before any drawAt of the iteration, so that all
\* digits drawn in one iteration come from one and the same reading, also when
\* the RTC moves on during the sweep.
C16_OneReadingPerSweep ==
  /\ [][(currentDateTime' # currentDateTime)
          => (pc \in {"setup_read", "loop_read"} /\ calls = <<>>)]_vars
  /\ [](Len(readLog) >= 1 => currentDateTime = LastRead.value)
  /\ [](\A k \in 1..Len(calls) :
          /\ calls[k].digit = DigitsOf(LastRead.value)[k]
          /\ LastRead.at <= iter.start)

\* C16's case: the time was fetched in this iteration, the RTC has moved on to
\* the next minute since, and the fourth digit is being drawn.
C16_Witness ==
  /\ pc = "delay"
  /\ Len(calls) = 4
  /\ iter.read
  /\ rtc # currentDateTime
  /\ CallDigits = DigitsOf(currentDateTime)

\* C17: drawAt with a position outside 0..3 and a digit in 0..9 sets the
\* segments and the dot as for any call and leaves all four cathodes HIGH,
\* so that no digit is selected during the dwell and after the return.
C17_OutOfRangeSelectsNothing ==
  (Rendered /\ pos \notin 0..3 /\ digit \in 0..9) =>
    /\ ActiveSelects = {}
    /\ \A k \in Selects : Level(k) = "HIGH"
    /\ LitSegments = Glyph(digit)
    /\ Level(Pins_DP) = "HIGH" <=> displayDot

\* C17's case: drawAt(4, 8, true) has returned after an earlier call, with
\* every segment and the dot driven and no cathode low.
C17_Witness ==
  /\ pc = "driver"
  /\ ret = "driver"
  /\ pos = 4
  /\ digit = 8
  /\ displayDot
  /\ time > DIGIT_DISPLAY_DELAY + MaxOverrun
  /\ LitSegments = Segments
  /\ Level(Pins_DP) = "HIGH"

\* C18: the test of the time update on the wrapping millisecond counter
\* agrees with the time that has really passed since lastReadTimestamp was
\* taken, also when the counter has wrapped below lastReadTimestamp: the
\* time is fetched in exactly the iterations that start READ_TIME_PERIOD or
\* more after the stamp, never earlier, and the stamp never gets older than
\* READ_TIME_PERIOD plus one iteration.
C18_RefreshTestSurvivesWrap ==
  /\ pc \in LoopPcs \cup DrawPcs =>
       /\ ReadDue(millis, lastReadTimestamp) <=> time - stampAt >= READ_TIME_PERIOD
       /\ time - stampAt <= READ_TIME_PERIOD + LongestIteration
  /\ pc \in {"loop_read", "loop_stamp"} => iter.elapsed >= READ_TIME_PERIOD
  /\ pc \in SweepPcs => (iter.read <=> iter.elapsed >= READ_TIME_PERIOD)

\* C18's case: the counter has wrapped to a value below lastReadTimestamp and
\* the time is fetched exactly READ_TIME_PERIOD after the stamp.
C18_Witness ==
  /\ pc = "loop_read"
  /\ time >= MillisModulus
  /\ millis < lastReadTimestamp
  /\ time - stampAt = READ_TIME_PERIOD

====
